---- MODULE Spec2Model ----
(***************************************************************************)
(* A model of evaluate_reconstruction.py: the run of main() as a sequence  *)
(* of steps (environment construction, cluster loading, model assembly,    *)
(* checkpoint restore, configuration assembly, the driver call and the     *)
(* result write), with every external call allowed to fail.                *)
(*                                                                         *)
(* Python strings are sequences of one-character strings, so that the      *)
(* substring tests and str.split are computed, not assumed.  Python None   *)
(* and "attribute not set" are the option values None / Some(v).           *)
(***************************************************************************)
EXTENDS Integers, Sequences, FiniteSets, TLC

VARIABLES
    args,                 \* the options object (attribute name -> value)
    environ,              \* os.environ (variable name -> string)
    pc,                   \* position of main()
    error,                \* the exception that ended the run, "" if none
    events,               \* calls made so far, in order: [op, target]
    factoryCalls,         \* calls of the two environment factories, in order
    eval_envs,            \* the vectorized environment, None before line 76/84
    clusters_h5,          \* the h5py handle: "unopened" | "open" | "closed"
    nclusters_read,       \* loop variable i of lines 108-114
    clusters2images,      \* cluster index -> [dtype, layout]
    nets,                 \* model name -> the module object bound to that local
    eval_config,          \* the configuration mapping (key -> value)
    models,               \* the model bundle (key -> model name)
    driverCalls,          \* calls of evaluate_reconstruction: the keys seen
    per_episode_metrics,  \* what the driver returned, None before
    statistics_json       \* the file: "absent" | "old" | "truncated" | "written"

vars == <<args, environ, pc, error, events, factoryCalls, eval_envs, clusters_h5,
          nclusters_read, clusters2images, nets, eval_config, models,
          driverCalls, per_episode_metrics, statistics_json>>

-----------------------------------------------------------------------------
(* Bounds of the model *)

MaxCudaLen == 3
MaxClusters == 2
MaxCkptEntries == 3

-----------------------------------------------------------------------------
(* Python values *)

None == [isNone |-> TRUE, val |-> <<>>]
Some(v) == [isNone |-> FALSE, val |-> v]

\* obj.name = v, d[name] = v
SetItem(d, k, v) == [x \in DOMAIN d \cup {k} |-> IF x = k THEN v ELSE d[x]]

\* list(range(n)), as a 1-indexed sequence
range(n) == [i \in 1..n |-> i - 1]

\* sub in s
Contains(sub, s) ==
    \E i \in 1..(Len(s) - Len(sub) + 1) : SubSeq(s, i, i + Len(sub) - 1) = sub

\* s.split(sep)
RECURSIVE split(_, _)
split(s, sep) ==
    IF \A i \in 1..Len(s) : s[i] # sep
    THEN <<s>>
    ELSE LET k == CHOOSE i \in 1..Len(s) :
                      s[i] = sep /\ \A j \in 1..(i - 1) : s[j] # sep
         IN  <<SubSeq(s, 1, k - 1)>> \o split(SubSeq(s, k + 1, Len(s)), sep)

Digits == {"0", "1", "2", "3", "4", "5", "6", "7", "8", "9"}

DigitValue(c) ==
    CHOOSE n \in 0..9 : <<"0", "1", "2", "3", "4", "5", "6", "7", "8", "9">>[n + 1] = c

\* whether int(tok) returns (over the characters used here: digits, "," and "x")
IsIntLiteral(tok) == Len(tok) > 0 /\ \A i \in 1..Len(tok) : tok[i] \in Digits

\* int(tok)
RECURSIVE int(_)
int(tok) ==
    IF Len(tok) = 0 THEN 0
    ELSE 10 * int(SubSeq(tok, 1, Len(tok) - 1)) + DigitValue(tok[Len(tok)])

RECURSIVE BoundedSeq(_, _)
BoundedSeq(S, n) ==
    IF n = 0 THEN {<<>>}
    ELSE LET shorter == BoundedSeq(S, n - 1)
         IN  shorter \cup {Append(s, c) : s \in {t \in shorter : Len(t) = n - 1}, c \in S}

-----------------------------------------------------------------------------
(* Inputs of a run *)

HabitatMarker == <<"h", "a", "b", "i", "t", "a", "t">>
AvdMarker == <<"a", "v", "d">>

EnvNames ==
    { <<"h", "a", "b", "i", "t", "a", "t">>,
      <<"a", "v", "d">>,
      <<"a", "v", "d", "-", "v", "1">>,
      <<"h", "a", "b", "i", "t", "a", "t", "_", "a", "v", "d">>,
      <<"g", "i", "b", "s", "o", "n">> }

Seeds == {0, 1}

NumProcesses == {1, 2}

ActorTypes == {"random", "oracle", "forward", "forward-plus", "frontier", "learned"}

CudaVar == "CUDA_VISIBLE_DEVICES"

CudaStrings ==
    BoundedSeq({"5", ","}, MaxCudaLen)
        \cup { <<"2", ",", "5", ",", "7">>, <<"7", ",", "x">>, <<"1", "0">> }

Environs == {<<>>} \cup {[v \in {CudaVar} |-> s] : s \in CudaStrings}

\* shapes of the "highres_coarse_occupancy" observation
OccShapes == {<<2, 4>>}

ModelNames == {"decoder", "feature_network", "pose_encoder", "encoder", "actor_critic"}

\* a module object that has not been constructed
NoNet == [built |-> FALSE, parallel |-> None, training |-> TRUE,
          state |-> <<"none", 0>>, nloads |-> 0]

\* a freshly constructed nn.Module: training mode, its own initial parameters
NewNet == [built |-> TRUE, parallel |-> None, training |-> TRUE,
           state |-> <<"constructor", 0>>, nloads |-> 0]

InitArgs(name, actor, multi, seed, procs) ==
    [env_name |-> name, actor_type |-> actor, use_multi_gpu |-> multi,
     seed |-> seed, num_processes |-> procs,
     habitat_config_file |-> "habitat_config_file", eval_split |-> "eval_split",
     num_pose_refs |-> 1, log_dir |-> "log_dir", clusters_path |-> "clusters_path",
     load_path_rec |-> "load_path_rec", load_path |-> "load_path",
     num_steps |-> 1, eval_episodes |-> 1, encoder_type |-> "rgb",
     use_action_embedding |-> TRUE, use_collision_embedding |-> TRUE,
     frontier_dilate_occ |-> 1, max_time_per_target |-> 1,
     interval_steps |-> 1, visualize_policy |-> FALSE]

Init ==
    /\ \E name \in EnvNames, actor \in ActorTypes, multi \in BOOLEAN,
          seed \in Seeds, procs \in NumProcesses :
           args = InitArgs(name, actor, multi, seed, procs)
    /\ environ \in Environs
    /\ pc = "start"
    /\ error = ""
    /\ events = <<>>
    /\ factoryCalls = <<>>
    /\ eval_envs = None
    /\ clusters_h5 = "unopened"
    /\ nclusters_read = 0
    /\ clusters2images = <<>>
    /\ nets = [m \in ModelNames |-> NoNet]
    /\ eval_config = <<>>
    /\ models = <<>>
    /\ driverCalls = <<>>
    /\ per_episode_metrics = None
    /\ statistics_json \in {"absent", "old"}

\* an exception leaves main(): nothing after the raising call runs
Raise(e) == pc' = "aborted" /\ error' = e

Call(op, target) == [op |-> op, target |-> target]

-----------------------------------------------------------------------------
(* Lines 50-66: set-up *)

\* "frontier" missing from the list of lines 60-66
RequiresPolicyFrontierLearned(actor_type) ==
    actor_type \notin {"random", "oracle", "forward", "forward-plus"}

RequiresPolicy(actor_type) ==
    actor_type \notin {"random", "oracle", "forward", "forward-plus", "frontier"}

Setup ==
    /\ pc = "start"
    /\ args' = SetItem(SetItem(SetItem(args,
                   "feat_shape_sim", <<512>>),
                   "odometer_shape", <<4>>),
                   "requires_policy", RequiresPolicy(args.actor_type))
    /\ pc' = "make_envs"
    /\ UNCHANGED <<environ, error, events, factoryCalls, eval_envs, clusters_h5,
                   nclusters_read, clusters2images, nets, eval_config, models,
                   driverCalls, per_episode_metrics, statistics_json>>

-----------------------------------------------------------------------------
(* Lines 67-99: environment construction *)

large_map_range == 100

\* the backend chosen by the test of lines 188-189 instead of that of line 67
UsesHabitatByAvdTest(env_name) == ~Contains(AvdMarker, env_name)

\* line 67
UsesHabitat(env_name) == Contains(HabitatMarker, env_name)

\* lines 69-71: [int(dev) for dev in os.environ[...].split(",")]
ParseDevices(s) ==
    LET toks == split(s, ",") IN [i \in 1..Len(toks) |-> int(toks[i])]

\* whether every int(dev) of lines 69-71 returns
ParseReturns(s) ==
    LET toks == split(s, ",") IN \A i \in 1..Len(toks) : IsIntLiteral(toks[i])

\* line 73 left out: the device ids as listed
ReindexSkipped(devices) == devices

\* line 73: [dev for dev in range(len(devices))]
Reindex(devices) == range(Len(devices))

\* lines 68-75
DeviceList(env) ==
    IF CudaVar \in DOMAIN env THEN Some(Reindex(ParseDevices(env[CudaVar]))) ELSE None

\* lines 76-78: the arguments of make_vec_envs_habitat
HabitatFactoryArgs(a, env) ==
    [fn |-> "make_vec_envs_habitat", config_file |-> a.habitat_config_file,
     device |-> "device", devices |-> DeviceList(env), seed |-> a.seed]

\* lines 84-94: the arguments of make_vec_envs_avd
AvdFactoryArgs(a) ==
    [fn |-> "make_vec_envs_avd", env_name |-> a.env_name,
     seed |-> a.seed + a.num_processes, num_processes |-> a.num_processes,
     log_dir |-> "log_dir/monitor", device |-> "device", allow_early_resets |-> TRUE,
     split |-> a.eval_split, nRef |-> a.num_pose_refs, set_return_topdown_map |-> TRUE]

\* line 79
HabitatSetsOccMapScale(actor_type) == actor_type = "frontier"

\* lines 80-82: 0.1 * (2 * large_map_range + 1) / H with H = shape[1], as a fraction
HabitatOccMapScale(shape) ==
    [num |-> 2 * large_map_range + 1, den |-> 10 * shape[2]]

\* the scale computed on the habitat branch only
AvdNeverSetsOccMapScale(actor_type) == FALSE

\* line 95
AvdSetsOccMapScale(actor_type) == actor_type = "frontier"

\* lines 96-98: 50.0 * (2 * large_map_range + 1) / H with H = shape[0], as a fraction
AvdOccMapScale(shape) ==
    [num |-> 50 * (2 * large_map_range + 1), den |-> shape[1]]

\* lines 79-82 / 95-98, then line 99
AfterFactory(a, setsScale, scale) ==
    SetItem(IF setsScale THEN SetItem(a, "occ_map_scale", scale) ELSE a,
            "obs_shape", <<3, 84, 84>>)

\* the factory may raise; the occupancy observation is looked up only on line 81/97
EnvOutcomes(readsOccupancy) ==
    {"ok", "factory_raises"}
        \cup (IF readsOccupancy THEN {"no_occupancy_space"} ELSE {})

MakeEnvsHabitat ==
    /\ pc = "make_envs"
    /\ UsesHabitat(args.env_name)
    /\ LET consulted ==
               events \o <<Call("os.environ.__contains__", CudaVar)>>
                      \o (IF CudaVar \in DOMAIN environ
                          THEN <<Call("os.environ.__getitem__", CudaVar)>>
                          ELSE <<>>)
       IN
       IF CudaVar \in DOMAIN environ /\ ~ParseReturns(environ[CudaVar])
       THEN /\ Raise("ValueError: int()")
            /\ events' = consulted
            /\ UNCHANGED <<args, factoryCalls, eval_envs>>
       ELSE \E outcome \in EnvOutcomes(HabitatSetsOccMapScale(args.actor_type)),
               shape \in OccShapes :
            /\ events' = consulted
            /\ factoryCalls' = Append(factoryCalls, HabitatFactoryArgs(args, environ))
            /\ CASE outcome = "factory_raises" ->
                      /\ Raise("make_vec_envs_habitat")
                      /\ UNCHANGED <<args, eval_envs>>
                 [] outcome = "no_occupancy_space" ->
                      /\ Raise("KeyError: highres_coarse_occupancy")
                      /\ eval_envs' = Some([backend |-> "habitat"])
                      /\ UNCHANGED args
                 [] outcome = "ok" ->
                      /\ eval_envs' = Some([backend |-> "habitat"])
                      /\ args' = AfterFactory(args,
                                     HabitatSetsOccMapScale(args.actor_type),
                                     HabitatOccMapScale(shape))
                      /\ pc' = "open_clusters"
                      /\ UNCHANGED error
    /\ UNCHANGED <<environ, clusters_h5, nclusters_read, clusters2images, nets,
                   eval_config, models, driverCalls, per_episode_metrics,
                   statistics_json>>

MakeEnvsAvd ==
    /\ pc = "make_envs"
    /\ ~UsesHabitat(args.env_name)
    /\ \E outcome \in EnvOutcomes(AvdSetsOccMapScale(args.actor_type)),
          shape \in OccShapes :
            /\ factoryCalls' = Append(factoryCalls, AvdFactoryArgs(args))
            /\ CASE outcome = "factory_raises" ->
                      /\ Raise("make_vec_envs_avd")
                      /\ UNCHANGED <<args, eval_envs>>
                 [] outcome = "no_occupancy_space" ->
                      /\ Raise("KeyError: highres_coarse_occupancy")
                      /\ eval_envs' = Some([backend |-> "avd"])
                      /\ UNCHANGED args
                 [] outcome = "ok" ->
                      /\ eval_envs' = Some([backend |-> "avd"])
                      /\ args' = AfterFactory(args,
                                     AvdSetsOccMapScale(args.actor_type),
                                     AvdOccMapScale(shape))
                      /\ pc' = "open_clusters"
                      /\ UNCHANGED error
    /\ UNCHANGED <<environ, events, clusters_h5, nclusters_read, clusters2images,
                   nets, eval_config, models, driverCalls, per_episode_metrics,
                   statistics_json>>

-----------------------------------------------------------------------------
(* Lines 101-115: cluster loading *)

\* lines 102-107: open the store, read the centroids, set args.nclusters
OpenClusters ==
    /\ pc = "open_clusters"
    /\ \/ /\ Raise("OSError: h5py.File")
          /\ UNCHANGED <<args, clusters_h5, events>>
       \/ /\ Raise("KeyError: cluster_centroids")
          /\ clusters_h5' = "open"
          /\ events' = Append(events, Call("h5py.File", "clusters_h5"))
          /\ UNCHANGED args
       \/ \E n \in 0..MaxClusters :
          /\ clusters_h5' = "open"
          /\ events' = Append(events, Call("h5py.File", "clusters_h5"))
          /\ args' = SetItem(args, "nclusters", n)
          /\ pc' = "load_clusters"
          /\ UNCHANGED error
    /\ UNCHANGED <<environ, factoryCalls, eval_envs, nclusters_read, clusters2images,
                   nets, eval_config, models, driverCalls, per_episode_metrics,
                   statistics_json>>

\* lines 112-114: channel-first floats to channel-last bytes
ConvertImages(stored) ==
    [dtype |-> "uint8",
     layout |-> <<stored.layout[1], stored.layout[3], stored.layout[4], stored.layout[2]>>]

StoredImages == [dtype |-> "float32", layout |-> <<"K", "C", "H", "W">>]

\* lines 108-114: one iteration of the loop
LoadCluster ==
    /\ pc = "load_clusters"
    /\ nclusters_read < args.nclusters
    /\ \/ /\ Raise("KeyError: cluster_i/images")
          /\ UNCHANGED <<nclusters_read, clusters2images>>
       \/ /\ Raise("ValueError: transpose")
          /\ UNCHANGED <<nclusters_read, clusters2images>>
       \/ /\ clusters2images' = Append(clusters2images, ConvertImages(StoredImages))
          /\ nclusters_read' = nclusters_read + 1
          /\ UNCHANGED <<pc, error>>
    /\ UNCHANGED <<args, environ, events, factoryCalls, eval_envs, clusters_h5, nets,
                   eval_config, models, driverCalls, per_episode_metrics,
                   statistics_json>>

\* line 115, reached when the loop has run to its end
CloseClusters ==
    /\ pc = "load_clusters"
    /\ nclusters_read = args.nclusters
    /\ clusters_h5' = "closed"
    /\ events' = Append(events, Call("close", "clusters_h5"))
    /\ pc' = "create_models"
    /\ UNCHANGED <<args, environ, error, factoryCalls, eval_envs, nclusters_read,
                   clusters2images, nets, eval_config, models, driverCalls,
                   per_episode_metrics, statistics_json>>

-----------------------------------------------------------------------------
(* Lines 117-151: model assembly *)

\* the decoder replicated along axis 0 like the other two
ParallelOfSameAxis(model, use_multi_gpu) ==
    CASE model = "feature_network" -> Some(0)
      [] model = "decoder" -> IF use_multi_gpu THEN Some(0) ELSE None
      [] model = "pose_encoder" -> IF use_multi_gpu THEN Some(0) ELSE None
      [] OTHER -> None

\* lines 122 and 124-126: the nn.DataParallel wrapper of each model, None if bare
ParallelOf(model, use_multi_gpu) ==
    CASE model = "feature_network" -> Some(0)
      [] model = "decoder" -> IF use_multi_gpu THEN Some(1) ELSE None
      [] model = "pose_encoder" -> IF use_multi_gpu THEN Some(0) ELSE None
      [] OTHER -> None

\* lines 118-151: the models constructed
Constructed(requires_policy) ==
    {"decoder", "feature_network", "pose_encoder"}
        \cup (IF requires_policy THEN {"encoder", "actor_critic"} ELSE {})

CreateModels ==
    /\ pc = "create_models"
    /\ nets' = [m \in ModelNames |->
                   IF m \in Constructed(args.requires_policy)
                   THEN [NewNet EXCEPT !.parallel = ParallelOf(m, args.use_multi_gpu)]
                   ELSE nets[m]]
    /\ pc' = "load_rec"
    /\ UNCHANGED <<args, environ, error, events, factoryCalls, eval_envs, clusters_h5,
                   nclusters_read, clusters2images, eval_config, models, driverCalls,
                   per_episode_metrics, statistics_json>>

-----------------------------------------------------------------------------
(* Lines 153-170: checkpoint restore and inference mode *)

\* the two blobs unpacked in the other order
RecLoadsSwapped ==
    << [model |-> "decoder", entry |-> 1], [model |-> "pose_encoder", entry |-> 0] >>

\* lines 154-156: which entry of torch.load(args.load_path_rec)[:2] goes to which model
RecLoads ==
    << [model |-> "decoder", entry |-> 0], [model |-> "pose_encoder", entry |-> 1] >>

\* line 161 left out: the pose encoder stays in training mode
RecModeCallsNoPoseEval ==
    << Call("to", "decoder"), Call("to", "feature_network"), Call("eval", "decoder"),
       Call("eval", "feature_network"), Call("to", "pose_encoder") >>

\* lines 157-162
RecModeCalls ==
    << Call("to", "decoder"), Call("to", "feature_network"), Call("eval", "decoder"),
       Call("eval", "feature_network"), Call("eval", "pose_encoder"),
       Call("to", "pose_encoder") >>

\* lines 164-166: which entry of torch.load(args.load_path)[:2] goes to which model
PolicyLoads ==
    << [model |-> "encoder", entry |-> 0], [model |-> "actor_critic", entry |-> 1] >>

\* lines 167-170
PolicyModeCalls ==
    << Call("to", "actor_critic"), Call("to", "encoder"), Call("eval", "actor_critic"),
       Call("eval", "encoder") >>

\* module.load_state_dict(state): the parameters become those of the blob
LoadStateDict(net, path, entry) ==
    [net EXCEPT !.state = <<path, entry>>, !.nloads = @ + 1]

\* module.eval() (a DataParallel wrapper passes it on to the module it wraps);
\* module.to(device) leaves mode and parameters as they are
ApplyCall(ns, c) ==
    IF c.op = "eval" THEN [ns EXCEPT ![c.target].training = FALSE] ELSE ns

RECURSIVE ApplyCalls(_, _)
ApplyCalls(ns, calls) ==
    IF calls = <<>> THEN ns ELSE ApplyCalls(ApplyCall(ns, Head(calls)), Tail(calls))

\* the first k load_state_dict calls of a plan
RECURSIVE ApplyLoads(_, _, _, _)
ApplyLoads(ns, path, loads, k) ==
    IF k = 0 THEN ns
    ELSE LET l == loads[k]
             before == ApplyLoads(ns, path, loads, k - 1)
         IN  [before EXCEPT ![l.model] = LoadStateDict(@, path, l.entry)]

LoadEvents(loads, k) == [i \in 1..k |-> Call("load_state_dict", loads[i].model)]

\* seq[:2]
Slice2(seq) == SubSeq(seq, 1, IF Len(seq) < 2 THEN Len(seq) ELSE 2)

\* x, y = torch.load(path)[:2], then the load_state_dict calls of the plan, then the
\* mode calls; any of the calls may raise
Restore(path, loads, modeCalls, next) ==
    \/ /\ Raise("torch.load")
       /\ UNCHANGED <<nets, events>>
    \/ \E nentries \in 0..MaxCkptEntries :
       /\ Len(Slice2(range(nentries))) # Len(loads)
       /\ Raise("ValueError: not enough values to unpack")
       /\ events' = Append(events, Call("torch.load", path))
       /\ UNCHANGED nets
    \/ \E nentries \in 0..MaxCkptEntries, failing \in 1..Len(loads) :
       /\ Len(Slice2(range(nentries))) = Len(loads)
       /\ Raise("RuntimeError: load_state_dict")
       /\ nets' = ApplyLoads(nets, path, loads, failing - 1)
       /\ events' = events \o <<Call("torch.load", path)>> \o LoadEvents(loads, failing - 1)
    \/ \E nentries \in 0..MaxCkptEntries :
       /\ Len(Slice2(range(nentries))) = Len(loads)
       /\ nets' = ApplyCalls(ApplyLoads(nets, path, loads, Len(loads)), modeCalls)
       /\ events' = events \o <<Call("torch.load", path)>>
                           \o LoadEvents(loads, Len(loads)) \o modeCalls
       /\ pc' = next
       /\ UNCHANGED error

\* lines 154-162
LoadReconstruction ==
    /\ pc = "load_rec"
    /\ Restore(args.load_path_rec, RecLoads, RecModeCalls, "load_policy")
    /\ UNCHANGED <<args, environ, factoryCalls, eval_envs, clusters_h5, nclusters_read,
                   clusters2images, eval_config, models, driverCalls,
                   per_episode_metrics, statistics_json>>

\* lines 163-170, requires_policy true
LoadPolicy ==
    /\ pc = "load_policy"
    /\ args.requires_policy
    /\ Restore(args.load_path, PolicyLoads, PolicyModeCalls, "eval_config")
    /\ UNCHANGED <<args, environ, factoryCalls, eval_envs, clusters_h5, nclusters_read,
                   clusters2images, eval_config, models, driverCalls,
                   per_episode_metrics, statistics_json>>

\* line 163, requires_policy false
SkipPolicy ==
    /\ pc = "load_policy"
    /\ ~args.requires_policy
    /\ pc' = "eval_config"
    /\ UNCHANGED <<args, environ, error, events, factoryCalls, eval_envs, clusters_h5,
                   nclusters_read, clusters2images, nets, eval_config, models,
                   driverCalls, per_episode_metrics, statistics_json>>

-----------------------------------------------------------------------------
(* Lines 172-193: the evaluation configuration *)

\* line 188
ForwardActionId(env_name) == IF Contains(AvdMarker, env_name) THEN 2 ELSE 0

\* line 189
TurnActionId(env_name) == IF Contains(AvdMarker, env_name) THEN 0 ELSE 1

\* lines 173-189
BaseConfig(a) ==
    [num_steps |-> a.num_steps, num_processes |-> a.num_processes,
     feat_shape_sim |-> a.feat_shape_sim, odometer_shape |-> a.odometer_shape,
     num_eval_episodes |-> a.eval_episodes, num_pose_refs |-> a.num_pose_refs,
     env_name |-> a.env_name, actor_type |-> a.actor_type,
     encoder_type |-> a.encoder_type,
     use_action_embedding |-> a.use_action_embedding,
     use_collision_embedding |-> a.use_collision_embedding,
     cluster_centroids |-> a.nclusters, clusters2images |-> clusters2images,
     rec_loss_fn |-> "rec_loss_fn_classify",
     vis_save_dir |-> "log_dir/visualizations",
     forward_action_id |-> ForwardActionId(a.env_name),
     turn_action_id |-> TurnActionId(a.env_name)]

\* line 190
WantsFrontierKeys(actor_type) == actor_type = "frontier"

\* lines 191-193
FrontierConfig(cfg, a) ==
    SetItem(SetItem(SetItem(cfg,
        "occ_map_scale", a.occ_map_scale),
        "frontier_dilate_occ", a.frontier_dilate_occ),
        "max_time_per_target", a.max_time_per_target)

AssembleConfig ==
    /\ pc = "eval_config"
    /\ IF WantsFrontierKeys(args.actor_type)
       THEN IF "occ_map_scale" \in DOMAIN args
            THEN /\ eval_config' = FrontierConfig(BaseConfig(args), args)
                 /\ pc' = "models"
                 /\ UNCHANGED error
            ELSE /\ Raise("AttributeError: occ_map_scale")
                 /\ eval_config' = BaseConfig(args)
       ELSE /\ eval_config' = BaseConfig(args)
            /\ pc' = "models"
            /\ UNCHANGED error
    /\ UNCHANGED <<args, environ, events, factoryCalls, eval_envs, clusters_h5,
                   nclusters_read, clusters2images, nets, models, driverCalls,
                   per_episode_metrics, statistics_json>>

-----------------------------------------------------------------------------
(* Lines 195-215: the bundle, the driver call and the result write *)

\* lines 195-201
BundleKeys(requires_policy) ==
    {"decoder", "pose_encoder", "feature_network"}
        \cup (IF requires_policy THEN {"actor_critic", "encoder"} ELSE {})

AssembleModels ==
    /\ pc = "models"
    /\ models' = [k \in BundleKeys(args.requires_policy) |-> nets[k]]
    /\ pc' = "evaluate"
    /\ UNCHANGED <<args, environ, error, events, factoryCalls, eval_envs, clusters_h5,
                   nclusters_read, clusters2images, nets, eval_config, driverCalls,
                   per_episode_metrics, statistics_json>>

\* statistics.json opened before the driver is called
EvaluateAfterOpen ==
    /\ pc = "evaluate"
    /\ driverCalls' = Append(driverCalls,
           [models |-> models, eval_envs |-> eval_envs.val, eval_config |-> eval_config,
            at |-> Len(events) + 1])
    /\ statistics_json' = "truncated"
    /\ events' = Append(events, Call("open", "statistics.json"))
    /\ \/ /\ Raise("evaluate_reconstruction")
          /\ UNCHANGED per_episode_metrics
       \/ /\ per_episode_metrics' = Some("per_episode_metrics")
          /\ pc' = "write"
          /\ UNCHANGED error
    /\ UNCHANGED <<args, environ, factoryCalls, eval_envs, clusters_h5,
                   nclusters_read, clusters2images, nets, eval_config, models>>

\* lines 203-211: the call, which returns or raises
Evaluate ==
    /\ pc = "evaluate"
    /\ driverCalls' = Append(driverCalls,
           [models |-> models, eval_envs |-> eval_envs.val, eval_config |-> eval_config,
            at |-> Len(events)])
    /\ \/ /\ Raise("evaluate_reconstruction")
          /\ UNCHANGED per_episode_metrics
       \/ /\ per_episode_metrics' = Some("per_episode_metrics")
          /\ pc' = "write"
          /\ UNCHANGED error
    /\ UNCHANGED <<args, environ, events, factoryCalls, eval_envs, clusters_h5,
                   nclusters_read, clusters2images, nets, eval_config, models,
                   statistics_json>>

\* lines 213-215: open(statistics.json, "w"), then json.dump
WriteStatistics ==
    /\ pc = "write"
    /\ \/ /\ Raise("OSError: open")
          /\ UNCHANGED <<statistics_json, events>>
       \/ /\ Raise("json.dump")
          /\ statistics_json' = "truncated"
          /\ events' = Append(events, Call("open", "statistics.json"))
       \/ /\ statistics_json' = "written"
          /\ events' = Append(events, Call("open", "statistics.json"))
          /\ pc' = "done"
          /\ UNCHANGED error
    /\ UNCHANGED <<args, environ, factoryCalls, eval_envs, clusters_h5, nclusters_read,
                   clusters2images, nets, eval_config, models, driverCalls,
                   per_episode_metrics>>

-----------------------------------------------------------------------------

Next ==
    \/ Setup
    \/ MakeEnvsHabitat
    \/ MakeEnvsAvd
    \/ OpenClusters
    \/ LoadCluster
    \/ CloseClusters
    \/ CreateModels
    \/ LoadReconstruction
    \/ LoadPolicy
    \/ SkipPolicy
    \/ AssembleConfig
    \/ AssembleModels
    \/ Evaluate
    \/ WriteStatistics

Spec == Init /\ [][Next]_vars

-----------------------------------------------------------------------------
(* Vocabulary of the properties *)

FixedStrategies == {"random", "oracle", "forward", "forward-plus", "frontier"}

FrontierKeys == {"occ_map_scale", "frontier_dilate_occ", "max_time_per_target"}

NameHasHabitat == Contains(HabitatMarker, args.env_name)

NameHasAvd == Contains(AvdMarker, args.env_name)

\* the positions in the call log of op(target)
EventsOf(op, target) == {i \in DOMAIN events : events[i] = Call(op, target)}

EnvironConsulted ==
    \E i \in DOMAIN events :
        events[i].op \in {"os.environ.__contains__", "os.environ.__getitem__"}

\* the run got past the environment step, or was ended by it
PastEnvStep == pc \notin {"start", "make_envs"}

\* the run was ended by int() on an entry of CUDA_VISIBLE_DEVICES, before any factory call
AbortedParsingDevices == pc = "aborted" /\ error = "ValueError: int()"

\* what the claim gives as the arguments of each factory (the device list is C5's)
ExpectedFactoryCall(c) ==
    IF NameHasHabitat
    THEN c = [fn |-> "make_vec_envs_habitat", config_file |-> args.habitat_config_file,
              device |-> "device", devices |-> c.devices, seed |-> args.seed]
    ELSE c = [fn |-> "make_vec_envs_avd", env_name |-> args.env_name,
              seed |-> args.seed + args.num_processes,
              num_processes |-> args.num_processes, log_dir |-> "log_dir/monitor",
              device |-> "device", allow_early_resets |-> TRUE,
              split |-> args.eval_split, nRef |-> args.num_pose_refs,
              set_return_topdown_map |-> TRUE]

-----------------------------------------------------------------------------
(* C1 *)

-----------------------------------------------------------------------------
(* C2 *)

\* C2: once the configuration holds the action ids, they are those of the backend the
\* environment was built by: avd gives forward 2 and turn 0, habitat forward 0 and turn 1.
C2_ActionIdsMatchBackend ==
    "forward_action_id" \in DOMAIN eval_config =>
        IF eval_envs.val.backend = "avd"
        THEN eval_config.forward_action_id = 2 /\ eval_config.turn_action_id = 0
        ELSE eval_config.forward_action_id = 0 /\ eval_config.turn_action_id = 1

-----------------------------------------------------------------------------
(* C3 *)

\* C3: every call of the driver gets a bundle with decoder, pose_encoder and
\* feature_network, and with actor_critic and encoder iff actor_type is not a fixed
\* strategy; the policy checkpoint is read only for such an actor_type.
C3_BundleKeys ==
    /\ \A i \in DOMAIN driverCalls :
          DOMAIN driverCalls[i].models =
              {"decoder", "pose_encoder", "feature_network"}
                  \cup (IF args.actor_type \in FixedStrategies
                        THEN {}
                        ELSE {"actor_critic", "encoder"})
    /\ EventsOf("torch.load", "load_path") # {} => args.actor_type \notin FixedStrategies
    /\ (driverCalls # <<>> /\ args.actor_type \notin FixedStrategies)
          => EventsOf("torch.load", "load_path") # {}

\* the driver called for the frontier strategy, without policy or encoder
C3_Witness ==
    /\ Len(driverCalls) = 1
    /\ args.actor_type = "frontier"
    /\ "actor_critic" \notin DOMAIN driverCalls[1].models
    /\ "decoder" \in DOMAIN driverCalls[1].models

-----------------------------------------------------------------------------
(* C4 *)

\* C4: an assembled configuration holds the three frontier keys iff actor_type is
\* "frontier"; when the assembly starts for "frontier", args.occ_map_scale is set, on
\* either backend, and the assembly never raises on it.
C4_FrontierKeys ==
    /\ (pc \in {"models", "evaluate", "write", "done"} \/ driverCalls # <<>>) =>
          IF args.actor_type = "frontier"
          THEN FrontierKeys \subseteq DOMAIN eval_config
          ELSE FrontierKeys \cap DOMAIN eval_config = {}
    /\ FrontierKeys \cap DOMAIN eval_config # {} => args.actor_type = "frontier"
    /\ (pc = "eval_config" /\ args.actor_type = "frontier")
          => "occ_map_scale" \in DOMAIN args
    /\ "occ_map_scale" \in DOMAIN eval_config
          => eval_config.occ_map_scale = args.occ_map_scale
    /\ error # "AttributeError: occ_map_scale"

\* a frontier run on the avd backend with the scale in the configuration
C4_Witness ==
    /\ pc = "done"
    /\ args.actor_type = "frontier"
    /\ eval_envs.val.backend = "avd"
    /\ eval_config.occ_map_scale = [num |-> 10050, den |-> 2]

-----------------------------------------------------------------------------
(* C5 *)

NumCommas(str) == Cardinality({i \in 1..Len(str) : str[i] = ","})

\* C5: the habitat factory gets [0, ..., N-1] when CUDA_VISIBLE_DEVICES is a list of N
\* comma-separated integers ("2,5,7" gives [0,1,2]) and None when the variable is not
\* set; a run on the other backend never consults os.environ.
C5_DeviceList ==
    /\ \A i \in DOMAIN factoryCalls :
          factoryCalls[i].fn = "make_vec_envs_habitat" =>
              IF CudaVar \in DOMAIN environ
              THEN /\ ~factoryCalls[i].devices.isNone
                   /\ factoryCalls[i].devices.val =
                          [k \in 1..(NumCommas(environ[CudaVar]) + 1) |-> k - 1]
                   /\ environ[CudaVar] = <<"2", ",", "5", ",", "7">>
                          => factoryCalls[i].devices.val = <<0, 1, 2>>
              ELSE factoryCalls[i].devices.isNone
    /\ ~NameHasHabitat => ~EnvironConsulted

\* the habitat factory called under CUDA_VISIBLE_DEVICES=2,5,7
C5_Witness ==
    /\ Len(factoryCalls) = 1
    /\ factoryCalls[1].fn = "make_vec_envs_habitat"
    /\ CudaVar \in DOMAIN environ
    /\ environ[CudaVar] = <<"2", ",", "5", ",", "7">>
    /\ factoryCalls[1].devices = Some(<<0, 1, 2>>)

-----------------------------------------------------------------------------
(* C6 *)

StatisticsUntouched == statistics_json \in {"absent", "old"}

\* C6: the driver is called at most once; statistics.json is opened only after that
\* call has returned its per-episode metrics; a run ended by the environment, the
\* cluster store, a checkpoint or the driver leaves statistics.json as it was.
C6_WriteOnlyAfterDriver ==
    /\ Len(driverCalls) <= 1
    /\ (~StatisticsUntouched \/ EventsOf("open", "statistics.json") # {}) =>
          /\ Len(driverCalls) = 1
          /\ ~per_episode_metrics.isNone
          /\ \A i \in EventsOf("open", "statistics.json") : i > driverCalls[1].at
    /\ statistics_json = "written" => pc = "done"
    /\ (pc = "aborted" /\ error \notin {"OSError: open", "json.dump"})
          => StatisticsUntouched /\ per_episode_metrics.isNone
    /\ pc \in {"start", "make_envs", "open_clusters", "load_clusters", "create_models",
               "load_rec", "load_policy", "eval_config", "models", "evaluate"}
          => StatisticsUntouched

\* the driver raised and an earlier statistics.json is still there
C6_Witness ==
    /\ pc = "aborted"
    /\ error = "evaluate_reconstruction"
    /\ Len(driverCalls) = 1
    /\ statistics_json = "old"

-----------------------------------------------------------------------------
(* C7 *)

\* C7: at every call of the driver each model of the bundle is in inference mode, and
\* each load_state_dict of a model made before the call is followed, before the call,
\* by an eval() of that model.
C7_InferenceModeAtDriver ==
    \A i \in DOMAIN driverCalls :
        \A k \in DOMAIN driverCalls[i].models :
            /\ ~driverCalls[i].models[k].training
            /\ \A l \in EventsOf("load_state_dict", k) :
                  \E e \in EventsOf("eval", k) : l < e /\ e <= driverCalls[i].at

\* the driver called with all five models, the wrapped ones included
C7_Witness ==
    /\ Len(driverCalls) = 1
    /\ args.use_multi_gpu
    /\ DOMAIN driverCalls[1].models = ModelNames
    /\ \A k \in ModelNames : ~driverCalls[1].models[k].training

-----------------------------------------------------------------------------
(* C8 *)

\* C8 as stated: at the driver call every model of the bundle, feature_network
\* included, has had exactly one load_state_dict.
C8_EveryModelRestoredOnce ==
    \A i \in DOMAIN driverCalls :
        \A k \in DOMAIN driverCalls[i].models : driverCalls[i].models[k].nloads = 1

\* C8 amended: at the driver call decoder and pose_encoder hold entries 0 and 1 of the
\* reconstruction checkpoint, encoder and actor_critic (when present) entries 0 and 1
\* of the policy checkpoint, each after exactly one load_state_dict; feature_network
\* has had none and holds the parameters its constructor gave it.
C8_RestoredOnceExceptFeatureNetwork ==
    \A i \in DOMAIN driverCalls :
        LET m == driverCalls[i].models IN
        /\ m["decoder"].nloads = 1 /\ m["decoder"].state = <<"load_path_rec", 0>>
        /\ m["pose_encoder"].nloads = 1
        /\ m["pose_encoder"].state = <<"load_path_rec", 1>>
        /\ "encoder" \in DOMAIN m =>
              m["encoder"].nloads = 1 /\ m["encoder"].state = <<"load_path", 0>>
        /\ "actor_critic" \in DOMAIN m =>
              /\ m["actor_critic"].nloads = 1
              /\ m["actor_critic"].state = <<"load_path", 1>>
        /\ m["feature_network"].nloads = 0
        /\ m["feature_network"].state = <<"constructor", 0>>
        /\ \A k \in DOMAIN m :
              Cardinality(EventsOf("load_state_dict", k)) = m[k].nloads

\* the driver called with a learned policy: four restored models and feature_network
C8_Witness ==
    /\ Len(driverCalls) = 1
    /\ "encoder" \in DOMAIN driverCalls[1].models
    /\ driverCalls[1].models["encoder"].nloads = 1
    /\ driverCalls[1].models["feature_network"].nloads = 0

-----------------------------------------------------------------------------
(* C9 *)

\* C9: once the run has left the cluster-loading step, by finishing it or by an
\* exception raised in it, the handle of the cluster store is not open.
C9_HandleReleased ==
    pc \notin {"start", "make_envs", "open_clusters", "load_clusters"}
        => clusters_h5 # "open"

-----------------------------------------------------------------------------
(* C10 *)

ModelsBuilt == nets["decoder"].built

\* C10 as stated: with use_multi_gpu, decoder is wrapped on axis 1 and pose_encoder and
\* feature_network on axis 0; without it none of the three is wrapped; policy and
\* encoder are never wrapped.
C10_WrappedIffMultiGpu ==
    ModelsBuilt =>
        /\ IF args.use_multi_gpu
           THEN /\ nets["decoder"].parallel = Some(1)
                /\ nets["pose_encoder"].parallel = Some(0)
                /\ nets["feature_network"].parallel = Some(0)
           ELSE /\ nets["decoder"].parallel = None
                /\ nets["pose_encoder"].parallel = None
                /\ nets["feature_network"].parallel = None
        /\ nets["actor_critic"].parallel = None
        /\ nets["encoder"].parallel = None

\* C10 amended: decoder is wrapped (axis 1) and pose_encoder is wrapped (axis 0) iff
\* use_multi_gpu; feature_network is wrapped on axis 0 whether or not use_multi_gpu is
\* set; policy and encoder are never wrapped.
C10_FeatureNetworkAlwaysWrapped ==
    ModelsBuilt =>
        /\ nets["decoder"].parallel = (IF args.use_multi_gpu THEN Some(1) ELSE None)
        /\ nets["pose_encoder"].parallel = (IF args.use_multi_gpu THEN Some(0) ELSE None)
        /\ nets["feature_network"].parallel = Some(0)
        /\ nets["actor_critic"].parallel = None
        /\ nets["encoder"].parallel = None

\* models built without use_multi_gpu: feature_network wrapped, decoder bare, policy built
C10_Witness ==
    /\ ModelsBuilt
    /\ ~args.use_multi_gpu
    /\ nets["feature_network"].parallel = Some(0)
    /\ nets["decoder"].parallel = None
    /\ nets["actor_critic"].built

====
